---- MODULE Spec2Model ----
(***************************************************************************)
(* A model of quarto-render.py: stage a document and its resources into a *)
(* Quarto project directory, run `quarto render` there, copy the output   *)
(* directory back beside the document and delete the staged copies.       *)
(*                                                                         *)
(* Paths are sequences of components counted from the filesystem root.    *)
(* A string read from the environment or the command line is a sequence   *)
(* of tokens: a token is a quote character or one path component.         *)
(* The filesystem is a function from the existing paths to their nodes.   *)
(***************************************************************************)
EXTENDS Integers, Sequences, FiniteSets, TLC

\* ---------------------------------------------------------------- bounds
MaxResources == 2     \* at most this many -r options on the command line
MaxLen == 3           \* longest environment value drawn in SpecEnv

\* ------------------------------------------------------------ vocabulary
DQ == "\""
SQ == "'"
Unset == <<"<unset>">>               \* os.environ.get(...) returned None
Running == -1                        \* no exit status / no return code yet
\* project_dir/doc.qmd does not exist (else: the invocation that wrote it)
Nobody == 0

Dir == [kind |-> "dir", content |-> "-"]
File(c) == [kind |-> "file", content |-> c]

\* ------------------------------------------------------- string handling
\* str.strip(c): drop every leading and every trailing occurrence of c
RECURSIVE LStrip(_, _)
LStrip(s, c) == IF Len(s) > 0 /\ Head(s) = c THEN LStrip(Tail(s), c) ELSE s

RECURSIVE RStrip(_, _)
RStrip(s, c) ==
    IF Len(s) > 0 /\ s[Len(s)] = c THEN RStrip(SubSeq(s, 1, Len(s) - 1), c) ELSE s

Strip(s, c) == RStrip(LStrip(s, c), c)

\* value.strip('"').strip("'")
StripQuotes(s) == Strip(Strip(s, DQ), SQ)

\* `not value`: None and the empty string are both falsy
Falsy(v) == v = Unset \/ v = <<>>

\* ---------------------------------------------------------- path algebra
IsPrefix(p, q) == Len(p) <= Len(q) /\ SubSeq(q, 1, Len(p)) = p
Rel(p, q) == SubSeq(q, Len(p) + 1, Len(q))          \* q relative to p
Parent(p) == SubSeq(p, 1, Len(p) - 1)               \* Path.parent
Name(p) == p[Len(p)]                                \* Path.name

\* the one symbolic link of the source tree: /s/link.png -> /s/a.png
SymlinkTarget == (<<"s", "link.png">> :> <<"s", "a.png">>)

\* Path.resolve() / the kernel's path walk: "." is dropped, ".." pops,
\* a symbolic link is replaced by its target
RECURSIVE Normalize(_, _)
Normalize(acc, rest) ==
    IF rest = <<>> THEN acc
    ELSE LET c == Head(rest) IN
         IF c = "." THEN Normalize(acc, Tail(rest))
         ELSE IF c = ".."
              THEN Normalize(IF acc = <<>> THEN acc ELSE Parent(acc), Tail(rest))
              ELSE LET p == Append(acc, c) IN
                   Normalize(IF p \in DOMAIN SymlinkTarget
                             THEN SymlinkTarget[p] ELSE p, Tail(rest))

Resolve(dir, spelling) == Normalize(dir, spelling)

\* ------------------------------------------------------------ filesystem
Exists(f, p) == p \in DOMAIN f
IsFile(f, p) == p \in DOMAIN f /\ f[p].kind = "file"
IsDir(f, p) == p \in DOMAIN f /\ f[p].kind = "dir"
Under(f, p) == {q \in DOMAIN f : IsPrefix(p, q)}    \* p and all below it
Restrict(f, S) == [q \in S |-> f[q]]

\* shutil.rmtree(p)
RmTree(f, p) == Restrict(f, DOMAIN f \ Under(f, p))

\* Path.unlink()
Unlink(f, p) == Restrict(f, DOMAIN f \ {p})

\* where shutil.copy2(src, dst) writes: into dst when dst is a directory
Copy2Target(f, src, dst) == IF IsDir(f, dst) THEN Append(dst, Name(src)) ELSE dst

\* shutil.copy2(src, dst) of a regular file
Copy2(f, src, dst) ==
    LET t == Copy2Target(f, src, dst) IN
    [q \in DOMAIN f \cup {t} |-> IF q = t THEN File(f[src].content) ELSE f[q]]

\* shutil.copytree(src, dst, dirs_exist_ok=ok), entry by entry.
\* os.makedirs(target, exist_ok=ok) of a source directory a succeeds unless
\* the target is a file, or exists while ok is false
CopyTreeDirOK(f, src, dst, ok, a) ==
    LET t == dst \o Rel(src, a) IN ~IsFile(f, t) /\ (ok \/ ~Exists(f, t))

\* an entry is visited when makedirs succeeded for all directories above it
CopyTreeReached(f, src, dst, ok, q) ==
    \A a \in Under(f, src) :
        (IsDir(f, a) /\ IsPrefix(a, q) /\ a # q) => CopyTreeDirOK(f, src, dst, ok, a)

CopyTreeFileTarget(f, src, dst, q) == Copy2Target(f, q, dst \o Rel(src, q))

\* the entries whose copy raises; copytree goes on with the siblings and
\* raises shutil.Error at the end when this set is not empty
CopyTreeErrors(f, src, dst, ok) ==
    {q \in Under(f, src) :
        /\ CopyTreeReached(f, src, dst, ok, q)
        /\ \/ IsDir(f, q) /\ ~CopyTreeDirOK(f, src, dst, ok, q)
           \/ IsFile(f, q) /\ IsDir(f, CopyTreeFileTarget(f, src, dst, q))}

\* the filesystem copytree leaves behind (also when it raises at the end)
CopyTree(f, src, dst, ok) ==
    LET visited == {q \in Under(f, src) : CopyTreeReached(f, src, dst, ok, q)}
        dirsMade == {q \in visited : IsDir(f, q) /\ CopyTreeDirOK(f, src, dst, ok, q)}
        filesCopied == {q \in visited :
                           IsFile(f, q) /\ ~IsDir(f, CopyTreeFileTarget(f, src, dst, q))}
        fileTargets == {CopyTreeFileTarget(f, src, dst, q) : q \in filesCopied}
        dom == DOMAIN f \cup {dst \o Rel(src, q) : q \in dirsMade} \cup fileTargets
    IN  [p \in dom |->
            IF p \in fileTargets
            THEN File(f[CHOOSE q \in filesCopied :
                            CopyTreeFileTarget(f, src, dst, q) = p].content)
            ELSE IF p \in DOMAIN f THEN f[p] ELSE Dir]

\* ------------------------------------------------------------ the world
\* a filesystem from a set of <<path, node>> pairs
MkFs(S) == [p \in {e[1] : e \in S} |-> (CHOOSE e \in S : e[1] = p)[2]]

\* the working directory /s holds the document, a picture, a link to the
\* picture and a directory; /t holds another picture of the same base name
SourceEntries ==
    { <<<<"s">>, Dir>>, <<<<"s", "doc.qmd">>, File("doc")>>,
      <<<<"s", "a.png">>, File("png-s")>>, <<<<"s", "img">>, Dir>>,
      <<<<"t">>, Dir>>, <<<<"t", "a.png">>, File("png-t")>> }

\* the project directory /p: absent, or present with its configuration and
\* optionally a file named a.png and optionally a stale output directory
ProjectBase == { <<<<"p">>, Dir>>, <<<<"p", "_quarto.yml">>, File("cfg")>> }
ProjectPng == { <<<<"p", "a.png">>, File("png-p")>> }
ProjectStale == { <<<<"p", "out">>, Dir>>, <<<<"p", "out", "old.html">>, File("stale")>> }
ProjectVariants ==
    { {}, ProjectBase, ProjectBase \cup ProjectPng, ProjectBase \cup ProjectStale,
      ProjectBase \cup ProjectPng \cup ProjectStale }

\* the destination /s/out beside the document: absent, holding b.html,
\* holding a.html and b.html, holding a directory named a.html, or holding
\* a file named sub
DestVariants ==
    { {},
      { <<<<"s", "out">>, Dir>>, <<<<"s", "out", "b.html">>, File("old-b")>> },
      { <<<<"s", "out">>, Dir>>, <<<<"s", "out", "b.html">>, File("old-b")>>,
        <<<<"s", "out", "a.html">>, File("old-a")>> },
      { <<<<"s", "out">>, Dir>>, <<<<"s", "out", "a.html">>, Dir>>,
        <<<<"s", "out", "a.html", "x">>, File("old-x")>> },
      { <<<<"s", "out">>, Dir>>, <<<<"s", "out", "sub">>, File("old-sub")>> } }

\* the output trees quarto may write, relative to the output directory
ProducedTrees ==
    { MkFs({ <<<<>>, Dir>>, <<<<"a.html">>, File("new-a")>> }),
      MkFs({ <<<<>>, Dir>>, <<<<"a.html">>, File("new-a")>>,
             <<<<"sub">>, Dir>>, <<<<"sub", "c.html">>, File("new-c")>> }) }
NoTree == MkFs({})

\* what quarto may write in the project directory outside the output one
RendererExtras == { {}, { <<<<".quarto">>, Dir>> } }

RendererCodes == {0, 1, 3}

\* a resource pattern: the directory part as typed and the names its
\* wildcard admits
Pattern(prefix, names) == [prefix |-> prefix, names |-> names]
PngHere == Pattern(<<>>, {"a.png", "link.png"})                       \* *.png
AllHere == Pattern(<<".">>, {"doc.qmd", "a.png", "link.png", "img", "out"})   \* ./*
PngThere == Pattern(<<"..", "t">>, {"a.png"})                         \* ../t/*.png
BibHere == Pattern(<<>>, {"b.bib"})                                   \* *.bib
ImgHere == Pattern(<<>>, {"img"})                                     \* img
Patterns == {PngHere, AllHere, PngThere, BibHere, ImgHere}

Documents == { <<"doc.qmd">>, <<"img">>, <<"nope.qmd">> }

\* the project variable: unset, empty, "../p" in quotes, or two quotes (which
\* strip to the empty path, the working directory); the output variable:
\* unset, empty, or out
ProjectDirValues == { Unset, <<>>, <<DQ, "..", "p", DQ>>, <<DQ, DQ>> }
OutputDirValues == { Unset, <<>>, <<"out">> }

\* glob.glob(pattern): the spellings of the existing entries it matches
Glob(f, dir, pat) ==
    {m \in {Append(pat.prefix, n) : n \in pat.names} : Exists(f, Resolve(dir, m))}

\* ---------------------------------------------------------------- state
VARIABLES
    pc,               \* position in main()
    environ,          \* the two environment variables
    args,             \* document and resources of the command line
    fs,               \* the filesystem
    cwd,              \* the working directory of the process
    project_dir_str, output_dir_str,
    source_file, project_dir, orig_dir,
    resource_idx,     \* position of the loop over args.resources
    matches,          \* the staged set
    warned,           \* resources reported as matching nothing
    copied,           \* members the copy loop has passed
    cleaned,          \* members the cleanup loop has passed
    returncode,       \* result.returncode
    pending,          \* exit status in flight while the finally block runs
    exitCode,         \* exit status of the process
    fs0,              \* history: the filesystem at the start
    renders,          \* history: number of subprocess.run calls
    failed,           \* history: the fatal condition met, "none" if none
    wrote,            \* history: paths quarto wrote outside the output dir
    produced,         \* history: the output tree found by the retrieval
    retrieved,        \* history: copytree returned without raising
    tgt,              \* two invocations: who wrote project_dir/doc.qmd last
    ipc,              \* two invocations: the position of each in main()
    icode,            \* two invocations: the exit status of each
    ilost             \* two invocations: history, the staged copy of an
                      \* invocation was removed while its quarto was running

vars == <<pc, environ, args, fs, cwd, project_dir_str, output_dir_str,
          source_file, project_dir, orig_dir, resource_idx, matches, warned,
          copied, cleaned, returncode, pending, exitCode,
          fs0, renders, failed, wrote, produced, retrieved,
          tgt, ipc, icode, ilost>>

\* the state of the second specification below, at rest in the others
two == <<tgt, ipc, icode, ilost>>
inputs == <<environ, args, fs0, two>>
paths == <<project_dir_str, output_dir_str, source_file, project_dir, orig_dir>>
loops == <<resource_idx, matches, warned, copied, cleaned>>
history == <<renders, wrote, produced, retrieved>>

Resources == UNION {[1..n -> Patterns] : n \in 0..MaxResources}

InitLocals ==
    /\ pc = "start"
    /\ cwd = <<"s">>
    /\ project_dir_str = <<>> /\ output_dir_str = <<>>
    /\ source_file = <<>> /\ project_dir = <<>> /\ orig_dir = <<>>
    /\ resource_idx = 1
    /\ matches = {} /\ warned = {} /\ copied = {} /\ cleaned = {}
    /\ returncode = Running /\ pending = 0 /\ exitCode = Running
    /\ fs0 = fs
    /\ renders = 0 /\ failed = "none" /\ wrote = {}
    /\ produced = NoTree /\ retrieved = FALSE
    /\ tgt = Nobody
    /\ ipc = [i \in 1..2 |-> "check"]
    /\ icode = [i \in 1..2 |-> Running]
    /\ ilost = [i \in 1..2 |-> FALSE]

Init ==
    /\ environ \in [QUARTO_RENDER_PROJECT_DIR : ProjectDirValues,
                    QUARTO_RENDER_OUTPUT_DIR : OutputDirValues]
    /\ args \in [document : Documents, resources : Resources]
    /\ \E pv \in ProjectVariants, dv \in DestVariants :
           fs = MkFs(SourceEntries \cup pv \cup dv)
    /\ InitLocals

\* sys.exit(code) outside the try block, or the end of the process
Exit(code, why) ==
    /\ pc' = "done"
    /\ exitCode' = code
    /\ failed' = why

\* ------------------------------------------------------------- main()
\* lines 40-54: read the two variables, refuse missing or empty ones,
\* strip the quotes
ReadEnvironment ==
    /\ pc = "start"
    /\ LET p == environ.QUARTO_RENDER_PROJECT_DIR
           o == environ.QUARTO_RENDER_OUTPUT_DIR
       IN  IF Falsy(p) \/ Falsy(o)
           THEN /\ Exit(1, "env")
                /\ UNCHANGED <<project_dir_str, output_dir_str>>
           ELSE /\ project_dir_str' = StripQuotes(p)
                /\ output_dir_str' = StripQuotes(o)
                /\ pc' = "validate"
                /\ UNCHANGED <<exitCode, failed>>
    /\ UNCHANGED <<inputs, fs, cwd, source_file, project_dir, orig_dir, loops,
                   returncode, pending, history>>

\* lines 57-74: resolve the document and the project directory, refuse a
\* missing document, a document that is not a file, a missing directory
ValidateDocument ==
    /\ pc = "validate"
    /\ LET sf == Resolve(cwd, args.document)
           pd == Resolve(cwd, project_dir_str)
       IN  IF ~Exists(fs, sf) \/ ~IsFile(fs, sf)
           THEN /\ Exit(1, "document")
                /\ source_file' = sf
                /\ UNCHANGED <<project_dir, orig_dir>>
           ELSE /\ source_file' = sf
                /\ project_dir' = pd
                /\ orig_dir' = cwd
                /\ IF ~Exists(fs, pd)
                   THEN Exit(1, "project_dir")
                   ELSE pc' = "collect" /\ UNCHANGED <<exitCode, failed>>
    /\ UNCHANGED <<inputs, fs, cwd, project_dir_str, output_dir_str, loops,
                   returncode, pending, history>>

\* line 118: project_dir / output_dir_str, as the kernel walks it
ProjectOutputDir == Normalize(project_dir, output_dir_str)

\* line 171: source_dir / output_dir_str
DestOutputDir == Normalize(Parent(source_file), output_dir_str)

\* the loop without its is_file() test: directories are collected too
ResourceFilesWithDirs(f, dir, pat) == {Resolve(dir, m) : m \in Glob(f, dir, pat)}

\* the regular files one resource pattern contributes (lines 82-87)
ResourceFiles(f, dir, pat) ==
    {Resolve(dir, m) : m \in {g \in Glob(f, dir, pat) : IsFile(f, Resolve(dir, g))}}

\* lines 79-90: one turn of the loop over args.resources
CollectResource ==
    /\ pc = "collect"
    /\ resource_idx <= Len(args.resources)
    /\ LET found == ResourceFiles(fs, cwd, args.resources[resource_idx])
       IN  /\ matches' = matches \cup found
           /\ warned' = IF found = {} THEN warned \cup {resource_idx} ELSE warned
    /\ resource_idx' = resource_idx + 1
    /\ UNCHANGED <<pc, inputs, fs, cwd, paths, copied, cleaned, returncode,
                   pending, exitCode, failed, history>>

\* line 93: the document joins the staged set
AddDocument ==
    /\ pc = "collect"
    /\ resource_idx > Len(args.resources)
    /\ matches' = matches \cup {Resolve(<<>>, source_file)}
    /\ pc' = "check"
    /\ UNCHANGED <<inputs, fs, cwd, paths, resource_idx, warned, copied, cleaned,
                   returncode, pending, exitCode, failed, history>>

\* a check that gives up only when every member collides
CollidesOnlyIfAll(f, dir, ms) == \A m \in ms : Exists(f, Append(dir, Name(m)))

\* lines 96-102: some member's base name already exists in the directory
Collides(f, dir, ms) == \E m \in ms : Exists(f, Append(dir, Name(m)))

\* the step without the exists() test: the copy loop always follows
CheckCollisionsSkipped ==
    /\ pc = "check"
    /\ pc' = "copy" /\ UNCHANGED <<exitCode, failed>>
    /\ UNCHANGED <<inputs, fs, cwd, paths, loops, returncode, pending, history>>

\* lines 96-104: the whole collision loop, before the first copy
CheckCollisions ==
    /\ pc = "check"
    /\ IF Collides(fs, project_dir, matches)
       THEN Exit(1, "collision")
       ELSE pc' = "copy" /\ UNCHANGED <<exitCode, failed>>
    /\ UNCHANGED <<inputs, fs, cwd, paths, loops, returncode, pending, history>>

\* lines 107-111: one turn of the copy loop; a set is walked in any order
CopyOne ==
    /\ pc = "copy"
    /\ \E m \in matches \ copied :
           /\ fs' = Copy2(fs, m, Append(project_dir, Name(m)))
           /\ copied' = copied \cup {m}
           /\ pc' = IF copied \cup {m} = matches THEN "chdir" ELSE "copy"
    /\ UNCHANGED <<inputs, cwd, paths, resource_idx, matches, warned, cleaned,
                   returncode, pending, exitCode, failed, history>>

\* line 111 raises (unreadable source, full disk): the loop is outside the
\* try block, the exception ends the process with status 1
CopyFails ==
    /\ pc = "copy"
    /\ matches \ copied # {}
    /\ Exit(1, "copy")
    /\ UNCHANGED <<inputs, fs, cwd, paths, loops, returncode, pending, history>>

\* a handler that reports the exception and forgets sys.exit(1)
RaiseExitZero(why) ==
    /\ pc' = "cleanup"
    /\ pending' = 0
    /\ failed' = why

\* lines 187-189: except Exception -> sys.exit(1), then the finally block
Raise(why) ==
    /\ pc' = "cleanup"
    /\ pending' = 1
    /\ failed' = why

\* line 115
ChangeDir ==
    /\ pc = "chdir"
    /\ cwd' = project_dir
    /\ pc' = "rmout"
    /\ UNCHANGED <<inputs, fs, paths, loops, returncode, pending, exitCode,
                   failed, history>>

\* line 115 raises
ChangeDirFails ==
    /\ pc = "chdir"
    /\ Raise("chdir")
    /\ UNCHANGED <<inputs, fs, cwd, paths, loops, returncode, exitCode, history>>

\* the step without its rmtree: a stale output directory stays
RemoveStaleOutputSkipped ==
    /\ pc = "rmout"
    /\ pc' = "render"
    /\ UNCHANGED <<inputs, fs, cwd, paths, loops, returncode, pending, exitCode,
                   failed, history>>

\* lines 118-121: remove the output directory left by an earlier run;
\* rmtree of something that is not a directory raises
RemoveStaleOutput ==
    /\ pc = "rmout"
    /\ IF IsFile(fs, ProjectOutputDir)
       THEN Raise("rmtree") /\ UNCHANGED fs
       ELSE /\ fs' = IF Exists(fs, ProjectOutputDir)
                     THEN RmTree(fs, ProjectOutputDir) ELSE fs
            /\ pc' = "render"
            /\ UNCHANGED <<pending, failed>>
    /\ UNCHANGED <<inputs, cwd, paths, loops, returncode, exitCode, history>>

\* line 121 raises
RemoveStaleOutputFails ==
    /\ pc = "rmout"
    /\ Exists(fs, ProjectOutputDir)
    /\ Raise("rmtree")
    /\ UNCHANGED <<inputs, fs, cwd, paths, loops, returncode, exitCode, history>>

\* quarto writes a tree at base
WriteTree(f, base, tree) ==
    LET new == {base \o r : r \in DOMAIN tree} IN
    [p \in DOMAIN f \cup new |-> IF p \in new THEN tree[Rel(base, p)] ELSE f[p]]

\* the step with sys.exit(1) in place of sys.exit(result.returncode)
RenderExitsOne ==
    /\ pc = "render"
    /\ \E code \in RendererCodes, tree \in ProducedTrees \cup {NoTree},
          extra \in RendererExtras :
           /\ Exists(fs, project_dir) \/ (tree = NoTree /\ extra = {})
           /\ fs' = WriteTree(WriteTree(fs, project_dir, MkFs(extra)),
                              ProjectOutputDir, tree)
           /\ wrote' = {project_dir \o e[1] : e \in extra}
           /\ returncode' = code
           /\ IF code # 0
              THEN pc' = "cleanup" /\ pending' = 1 /\ failed' = "renderer"
              ELSE pc' = "retrieve" /\ UNCHANGED <<pending, failed>>
    /\ renders' = renders + 1
    /\ UNCHANGED <<inputs, cwd, paths, loops, exitCode, produced, retrieved>>

\* quarto runs in the project directory and writes there; when that directory
\* is gone (removed at line 121) it has nowhere to write.
\* lines 123-167: the probe for a virtual environment only builds the env
\* passed to the subprocess and changes no state; quarto runs to its end in
\* the project directory and may write an output tree and entries of its
\* own; a non-zero return code leaves through sys.exit(returncode), which
\* `except Exception` lets pass
Render ==
    /\ pc = "render"
    /\ \E code \in RendererCodes, tree \in ProducedTrees \cup {NoTree},
          extra \in RendererExtras :
           /\ Exists(fs, project_dir) \/ (tree = NoTree /\ extra = {})
           /\ fs' = WriteTree(WriteTree(fs, project_dir, MkFs(extra)),
                              ProjectOutputDir, tree)
           /\ wrote' = {project_dir \o e[1] : e \in extra}
           /\ returncode' = code
           /\ IF code # 0
              THEN pc' = "cleanup" /\ pending' = code /\ failed' = "renderer"
              ELSE pc' = "retrieve" /\ UNCHANGED <<pending, failed>>
    /\ renders' = renders + 1
    /\ UNCHANGED <<inputs, cwd, paths, loops, exitCode, produced, retrieved>>

\* line 163 raises (quarto is not installed)
RenderRaises ==
    /\ pc = "render"
    /\ renders' = renders + 1
    /\ Raise("subprocess")
    /\ UNCHANGED <<inputs, fs, cwd, paths, loops, returncode, exitCode,
                   wrote, produced, retrieved>>

\* the tree below p, relative to p
TreeAt(f, p) == [r \in {Rel(p, q) : q \in Under(f, p)} |-> f[p \o r]]

\* the step without line 183: the copied tree stays in the project directory
RetrieveKeepsSource ==
    /\ pc = "retrieve"
    /\ IF Exists(fs, ProjectOutputDir)
       THEN LET ok == Exists(fs, DestOutputDir)
                after == CopyTree(fs, ProjectOutputDir, DestOutputDir, ok)
            IN  /\ produced' = TreeAt(fs, ProjectOutputDir)
                /\ fs' = after
                /\ IF CopyTreeErrors(fs, ProjectOutputDir, DestOutputDir, ok) # {}
                   THEN Raise("retrieve") /\ UNCHANGED retrieved
                   ELSE /\ retrieved' = TRUE
                        /\ pc' = "cleanup"
                        /\ UNCHANGED <<pending, failed>>
       ELSE /\ pc' = "cleanup"
            /\ UNCHANGED <<fs, pending, failed, produced, retrieved>>
    /\ UNCHANGED <<inputs, cwd, paths, loops, returncode, exitCode, renders, wrote>>

\* lines 170-185: copy the output tree beside the document, merging into an
\* existing destination, then remove it from the project directory
Retrieve ==
    /\ pc = "retrieve"
    /\ IF Exists(fs, ProjectOutputDir)
       THEN LET ok == Exists(fs, DestOutputDir)
                after == CopyTree(fs, ProjectOutputDir, DestOutputDir, ok)
            IN  /\ produced' = TreeAt(fs, ProjectOutputDir)
                /\ IF CopyTreeErrors(fs, ProjectOutputDir, DestOutputDir, ok) # {}
                   THEN /\ fs' = after
                        /\ Raise("retrieve")
                        /\ UNCHANGED retrieved
                   ELSE /\ fs' = RmTree(after, ProjectOutputDir)
                        /\ retrieved' = TRUE
                        /\ pc' = "cleanup"
                        /\ UNCHANGED <<pending, failed>>
       ELSE /\ pc' = "cleanup"
            /\ UNCHANGED <<fs, pending, failed, produced, retrieved>>
    /\ UNCHANGED <<inputs, cwd, paths, loops, returncode, exitCode, renders, wrote>>

\* lines 177/180 raise for a reason outside the two trees
RetrieveFails ==
    /\ pc = "retrieve"
    /\ Exists(fs, ProjectOutputDir)
    /\ Raise("retrieve")
    /\ UNCHANGED <<inputs, fs, cwd, paths, loops, returncode, exitCode, history>>

\* lines 193-198: one turn of the cleanup loop
CleanupOne ==
    /\ pc = "cleanup"
    /\ \E m \in matches \ cleaned :
           LET target_resource == Append(project_dir, Name(m)) IN
           /\ fs' = IF Exists(fs, target_resource) /\ IsFile(fs, target_resource)
                    THEN Unlink(fs, target_resource) ELSE fs
           /\ cleaned' = cleaned \cup {m}
    /\ UNCHANGED <<pc, inputs, cwd, paths, resource_idx, matches, warned, copied,
                   returncode, pending, exitCode, failed, history>>

\* line 201 and the end of the process: the status in flight becomes the
\* exit status
RestoreDir ==
    /\ pc = "cleanup"
    /\ cleaned = matches
    /\ cwd' = orig_dir
    /\ pc' = "done"
    /\ exitCode' = pending
    /\ UNCHANGED <<inputs, fs, paths, loops, returncode, pending, failed, history>>

Next ==
    \/ ReadEnvironment
    \/ ValidateDocument
    \/ CollectResource
    \/ AddDocument
    \/ CheckCollisions
    \/ CopyOne
    \/ CopyFails
    \/ ChangeDir
    \/ ChangeDirFails
    \/ RemoveStaleOutput
    \/ RemoveStaleOutputFails
    \/ Render
    \/ RenderRaises
    \/ Retrieve
    \/ RetrieveFails
    \/ CleanupOne
    \/ RestoreDir

Spec == Init /\ [][Next]_vars

\* ------------------------------------------- the environment on its own
\* every value of at most MaxLen tokens for both variables, one fixed world
QuoteTokens == {DQ, SQ, "p"}
EnvStrings == UNION {[1..n -> QuoteTokens] : n \in 0..MaxLen} \cup {Unset}

InitEnv ==
    /\ environ \in [QUARTO_RENDER_PROJECT_DIR : EnvStrings,
                    QUARTO_RENDER_OUTPUT_DIR : EnvStrings]
    /\ args = [document |-> <<"doc.qmd">>, resources |-> <<>>]
    /\ fs = MkFs(SourceEntries \cup ProjectBase)
    /\ InitLocals

NextEnv == ReadEnvironment

SpecEnv == InitEnv /\ [][NextEnv]_vars

\* ------------------------------------------ a removal that fails
\* line 198 raises: the exception leaves the finally block in place of the
\* exit in flight, the rest of the loop and line 201 are skipped, and the
\* uncaught exception ends the process with status 1
CleanupUnlinkFails ==
    /\ pc = "cleanup"
    /\ \E m \in matches \ cleaned : IsFile(fs, Append(project_dir, Name(m)))
    /\ pc' = "done"
    /\ exitCode' = 1
    /\ UNCHANGED <<inputs, fs, cwd, paths, loops, returncode, pending, failed,
                   history>>

NextCleanupFault == Next \/ CleanupUnlinkFails

SpecCleanupFault == Init /\ [][NextCleanupFault]_vars

\* --------------------------- documents and outputs in other places
\* The document beside the project directory, inside it, or inside its
\* output directory; the output variable naming a subdirectory or the
\* project directory itself.
InsideEntries ==
    { <<<<"p", "in.qmd">>, File("doc-in")>>,
      <<<<"p", "out">>, Dir>>, <<<<"p", "out", "doc.qmd">>, File("doc-out")>> }

DocumentsWide == { <<"doc.qmd">>, <<"..", "p", "in.qmd">>, <<"..", "p", "out", "doc.qmd">> }
OutputDirValuesWide == { <<"out">>, <<".">> }

InitWide ==
    /\ environ \in [QUARTO_RENDER_PROJECT_DIR : {<<"..", "p">>},
                    QUARTO_RENDER_OUTPUT_DIR : OutputDirValuesWide]
    /\ args \in [document : DocumentsWide, resources : Resources]
    /\ fs = MkFs(SourceEntries \cup ProjectBase \cup InsideEntries)
    /\ InitLocals

SpecWide == InitWide /\ [][Next]_vars

\* ------------------------------------- two invocations, one directory
\* Two runs of main() on the same project directory, each staging one
\* document of the base name doc.qmd from a directory of its own; the
\* project directory holds no doc.qmd at the start. Each run takes the steps
\* of main() that touch project_dir/doc.qmd: the collision check, the copy,
\* the start and the end of quarto, the cleanup.
single == <<pc, environ, args, fs, cwd, project_dir_str, output_dir_str,
            source_file, project_dir, orig_dir, resource_idx, matches, warned,
            copied, cleaned, returncode, pending, exitCode,
            fs0, renders, failed, wrote, produced, retrieved>>

Other(i) == 3 - i

\* a check that also refuses while the other invocation is about to copy
TwoCheckSeesPending(i) ==
    /\ ipc[i] = "check"
    /\ IF tgt # Nobody \/ ipc[Other(i)] = "copy"
       THEN ipc' = [ipc EXCEPT ![i] = "rejected"] /\ icode' = [icode EXCEPT ![i] = 1]
       ELSE ipc' = [ipc EXCEPT ![i] = "copy"] /\ UNCHANGED icode
    /\ UNCHANGED <<single, tgt, ilost>>

\* lines 96-104: target_resource_path.exists() -> sys.exit(1)
TwoCheck(i) ==
    /\ ipc[i] = "check"
    /\ IF tgt # Nobody
       THEN ipc' = [ipc EXCEPT ![i] = "rejected"] /\ icode' = [icode EXCEPT ![i] = 1]
       ELSE ipc' = [ipc EXCEPT ![i] = "copy"] /\ UNCHANGED icode
    /\ UNCHANGED <<single, tgt, ilost>>

\* lines 107-111: copy2 writes the target, over whatever is there by now
TwoCopy(i) ==
    /\ ipc[i] = "copy"
    /\ tgt' = i
    /\ ipc' = [ipc EXCEPT ![i] = "render"]
    /\ UNCHANGED <<single, icode, ilost>>

\* line 163: quarto is started
TwoRenderStart(i) ==
    /\ ipc[i] = "render"
    /\ ipc' = [ipc EXCEPT ![i] = "running"]
    /\ ilost' = [ilost EXCEPT ![i] = (tgt = Nobody)]
    /\ UNCHANGED <<single, tgt, icode>>

\* lines 163-167: quarto has ended with some return code
TwoRenderEnd(i) ==
    /\ ipc[i] = "running"
    /\ \E code \in RendererCodes : icode' = [icode EXCEPT ![i] = code]
    /\ ipc' = [ipc EXCEPT ![i] = "cleanup"]
    /\ UNCHANGED <<single, tgt, ilost>>

\* lines 193-201: unlink the target when it exists, then the process ends
TwoCleanup(i) ==
    /\ ipc[i] = "cleanup"
    /\ tgt' = Nobody
    /\ ilost' = [ilost EXCEPT ![Other(i)] =
                     @ \/ (tgt # Nobody /\ ipc[Other(i)] = "running")]
    /\ ipc' = [ipc EXCEPT ![i] = "done"]
    /\ UNCHANGED <<single, icode>>

InitTwo ==
    /\ environ = [QUARTO_RENDER_PROJECT_DIR |-> <<"..", "p">>,
                  QUARTO_RENDER_OUTPUT_DIR |-> <<"out">>]
    /\ args = [document |-> <<"doc.qmd">>, resources |-> <<>>]
    /\ fs = MkFs(SourceEntries \cup ProjectBase)
    /\ InitLocals

NextTwo ==
    \E i \in 1..2 :
        \/ TwoCheck(i)
        \/ TwoCopy(i)
        \/ TwoRenderStart(i)
        \/ TwoRenderEnd(i)
        \/ TwoCleanup(i)

SpecTwo == InitTwo /\ [][NextTwo]_vars

\* =============================================================== claims
\* the flow left before the staged set was complete
EndedEarly == failed \in {"env", "document", "project_dir"}
AfterCollect == pc \notin {"start", "validate", "collect"} /\ ~EndedEarly
AfterCheck == AfterCollect /\ pc # "check"
TargetOf(m) == Append(project_dir, Name(m))
SameBelow(f, g, d) ==
    \A q \in DOMAIN f \cup DOMAIN g :
        IsPrefix(d, q) => (q \in DOMAIN f /\ q \in DOMAIN g /\ f[q] = g[q])

\* C1: when main() has ended, the entries of the project directory are the
\* entries it had at the start, apart from what quarto wrote outside the
\* output directory.
C1_TargetRestored ==
    (pc = "done" /\ project_dir # <<>>) =>
        {q \in DOMAIN fs : Len(q) = Len(project_dir) + 1 /\ IsPrefix(project_dir, q)}
            \ wrote
        = {q \in DOMAIN fs0 : Len(q) = Len(project_dir) + 1 /\ IsPrefix(project_dir, q)}

\* C2: when quarto returned a non-zero code k the process exits with k, no
\* staged copy is left in the project directory, and the destination beside
\* the document is as it was (no retrieval).
C2_RendererFailure ==
    (pc = "done" /\ returncode \notin {Running, 0}) =>
        /\ exitCode = returncode
        /\ \A m \in copied : TargetOf(m) \notin DOMAIN fs
        /\ ~retrieved
        /\ SameBelow(fs, fs0, Normalize(Parent(source_file), output_dir_str))

C2_Witness ==
    /\ pc = "done"
    /\ returncode = 3
    /\ exitCode = 3
    /\ Cardinality(copied) >= 2
    /\ Normalize(project_dir, output_dir_str) \in DOMAIN fs

\* C3: if the base name of some member of the staged set exists in the
\* project directory when the collision check runs, the process exits with
\* 1, nothing was copied, quarto was not run and the filesystem is untouched.
C3_CollisionAborts ==
    (AfterCheck /\ \E m \in matches : TargetOf(m) \in DOMAIN fs0) =>
        /\ pc = "done"
        /\ exitCode = 1
        /\ copied = {}
        /\ renders = 0
        /\ fs = fs0

C3_Witness ==
    /\ pc = "done"
    /\ failed = "collision"
    /\ Cardinality(matches) >= 2
    /\ TargetOf(source_file) \notin DOMAIN fs0
    /\ \E m \in matches : TargetOf(m) \in DOMAIN fs0

\* C4: when two different members of the staged set have the same base
\* name, no copy is executed.
C4_DistinctTargets ==
    (AfterCollect /\ \E a, b \in matches : a # b /\ Name(a) = Name(b)) => copied = {}

\* C5: after a retrieval that raised nothing, the destination holds every
\* path of the produced tree with the produced content, every other entry
\* the destination had is as it was, and a destination that did not exist
\* equals the produced tree.
C5_MergeOverwrites ==
    retrieved =>
        LET dest == Normalize(Parent(source_file), output_dir_str) IN
        /\ \A r \in DOMAIN produced :
               dest \o r \in DOMAIN fs /\ fs[dest \o r] = produced[r]
        /\ \A q \in DOMAIN fs0 :
               (IsPrefix(dest, q) /\ Rel(dest, q) \notin DOMAIN produced)
                   => (q \in DOMAIN fs /\ fs[q] = fs0[q])
        /\ dest \notin DOMAIN fs0 =>
               {Rel(dest, q) : q \in {x \in DOMAIN fs : IsPrefix(dest, x)}}
                   = DOMAIN produced

\* C6: when subprocess.run is about to start, nothing exists at or below
\* the declared output directory of the project.
C6_OutputDirAbsentAtRender ==
    pc = "render" =>
        \A q \in DOMAIN fs : ~IsPrefix(Normalize(project_dir, output_dir_str), q)

C6_Witness ==
    /\ pc = "render"
    /\ Normalize(project_dir, output_dir_str) \in DOMAIN fs0

\* C7: the exit status is 0 exactly when quarto returned 0 and no stage
\* failed; it is 1 for a missing or empty variable, a missing document, a
\* document that is not a file, a missing project directory, a collision
\* and an exception of any stage; a render that produced no output
\* directory still exits with 0.
C7_ExitCodes ==
    pc = "done" =>
        /\ exitCode = 0 <=> (returncode = 0 /\ failed = "none")
        /\ (\E v \in DOMAIN environ : environ[v] = Unset \/ environ[v] = <<>>)
               => exitCode = 1
        /\ failed \in {"env", "document", "project_dir", "collision", "copy",
                       "chdir", "rmtree", "subprocess", "retrieve"} => exitCode = 1
        /\ (AfterCollect /\ \E m \in matches : TargetOf(m) \in DOMAIN fs0)
               => exitCode = 1
        /\ (returncode = 0 /\ failed = "none" /\ produced = NoTree) => exitCode = 0

C7_Witness ==
    /\ pc = "done"
    /\ failed = "subprocess"
    /\ exitCode = 1
    /\ copied # {}

\* C8: the staged set is the document together with the regular files the
\* patterns match, each under its resolved path: no directory, no file
\* twice, nothing from a pattern without a regular-file match, which is
\* warned about and does not end the flow.
C8_StagedSet ==
    LET Spellings(i) ==
            {Append(args.resources[i].prefix, n) : n \in args.resources[i].names}
        Target(g) == Normalize(<<"s">>, g)
        Hits(i) == {Target(g) : g \in {x \in Spellings(i) : Target(x) \in DOMAIN fs0}}
        N == Len(args.resources)
    IN  /\ pc = "collect" => exitCode = Running
        /\ AfterCollect =>
              /\ Normalize(<<"s">>, args.document) \in matches
              /\ \A m \in matches : m \in DOMAIN fs0 /\ fs0[m].kind = "file"
              /\ \A m \in matches :
                     m = Normalize(<<"s">>, args.document) \/ \E i \in 1..N : m \in Hits(i)
              /\ \A i \in 1..N : \A h \in Hits(i) : fs0[h].kind = "file" => h \in matches
              /\ \A a, b \in matches : Normalize(<<>>, a) = Normalize(<<>>, b) => a = b
              /\ \A m \in matches : Normalize(<<>>, m) = m
              /\ \A i \in 1..N : i \in warned <=> \A h \in Hits(i) : fs0[h].kind # "file"

C8_Witness ==
    /\ pc = "check"
    /\ args.resources = <<AllHere, BibHere>>
    /\ warned = {2}
    /\ matches = {<<"s", "doc.qmd">>, <<"s", "a.png">>}

\* C9: each variable is used with one matching pair of enclosing quotes
\* removed, and unchanged when it is not enclosed in a matching pair.
C9_QuotesStripped ==
    LET Wrapped(v) == Len(v) >= 2 /\ v[1] = v[Len(v)] /\ v[1] \in {DQ, SQ}
        Expected(v) == IF Wrapped(v) THEN SubSeq(v, 2, Len(v) - 1) ELSE v
    IN  pc = "validate" =>
            /\ project_dir_str = Expected(environ.QUARTO_RENDER_PROJECT_DIR)
            /\ output_dir_str = Expected(environ.QUARTO_RENDER_OUTPUT_DIR)

\* C10: when a copy fails after earlier members were copied, every member
\* already copied is removed from the project directory before the exit.
C10_CleanupArmed ==
    (pc = "done" /\ failed = "copy" /\ copied # {}) =>
        \A m \in copied : TargetOf(m) \notin DOMAIN fs


\* the finally block was entered and left before the loop was through
CleanupBroken == pc = "done" /\ matches # {} /\ copied = matches /\ cleaned # matches

\* C11: when the flow had already failed (quarto returned k, or a stage
\* raised) and a removal of the cleanup step fails, the process still exits
\* with the status of the original failure: k, respectively 1.
C11_OriginalStatusKept ==
    (CleanupBroken /\ failed # "none") =>
        exitCode = IF failed = "renderer" THEN returncode ELSE 1

\* C12: the cleanup step attempts the removal of every staged file, also
\* after a removal failed, and restores the working directory afterwards.
C12_CleanupComplete ==
    (pc = "done" /\ matches # {} /\ copied = matches) =>
        /\ cleaned = matches
        /\ cwd = orig_dir


\* C13: the destination beside the document differs from what it was only
\* when quarto returned 0 and its output directory existed afterwards; once
\* the copy has succeeded nothing is left at the output directory of the
\* project; in every other run the destination is as it was.
C13_RetrievalOnlyOnSuccess ==
    LET dest == Normalize(Parent(source_file), output_dir_str)
        pod == Normalize(project_dir, output_dir_str)
    IN  /\ ~SameBelow(fs, fs0, dest) => (returncode = 0 /\ produced # NoTree)
        /\ retrieved => \A q \in DOMAIN fs : ~IsPrefix(pod, q)
        /\ (pc = "done" /\ (returncode # 0 \/ produced = NoTree)) =>
               SameBelow(fs, fs0, dest)

C13_Witness ==
    /\ pc = "done"
    /\ exitCode = 0
    /\ retrieved
    /\ Normalize(Parent(source_file), output_dir_str) \in DOMAIN fs0
    /\ ~SameBelow(fs, fs0, Normalize(Parent(source_file), output_dir_str))


\* C14: in a run that copies a file the steps come in this order: all
\* collision checks, all copies, removal of a stale output directory, one
\* run of quarto, the retrieval if any, the cleanup; no staged copy is
\* deleted before quarto has ended, quarto runs at most once, and the run
\* ends with the cleanup on the normal, the failed-render and the exception
\* paths.
C14_StepOrder ==
    LET pod == Normalize(project_dir, output_dir_str) IN
    /\ pc \in {"start", "validate", "collect", "check"} => (copied = {} /\ fs = fs0)
    /\ pc = "copy" => (SameBelow(fs, fs0, pod) /\ renders = 0 /\ cleaned = {})
    /\ pc \in {"chdir", "rmout", "render"} =>
           (copied = matches /\ renders = 0 /\ cleaned = {})
    /\ renders <= 1
    /\ (returncode # Running \/ produced # NoTree \/ retrieved) => renders = 1
    /\ pc \in {"copy", "chdir", "rmout", "render", "retrieve"} =>
           \A m \in copied : TargetOf(m) \in DOMAIN fs
    /\ cleaned # {} => pc \in {"cleanup", "done"}
    /\ (pc = "done" /\ copied # {}) => cleaned = matches


\* C15: right after the copy loop the project directory holds the entries
\* it had before and, for each member of the staged set, one more file
\* under the member's base name with the content of the member's source.
C15_StagedListing ==
    pc = "chdir" =>
        LET before == {q \in DOMAIN fs0 : Len(q) = Len(project_dir) + 1
                                          /\ IsPrefix(project_dir, q)}
            after == {q \in DOMAIN fs : Len(q) = Len(project_dir) + 1
                                        /\ IsPrefix(project_dir, q)}
        IN  /\ before \subseteq after
            /\ after \ before = {TargetOf(m) : m \in matches}
            /\ Cardinality(after \ before) = Cardinality(matches)
            /\ \A q \in before : fs[q] = fs0[q]
            /\ \A m \in matches :
                   fs[TargetOf(m)] = [kind |-> "file", content |-> fs0[m].content]


\* C16: two invocations on one project directory are unsafe. The collision
\* check refuses an invocation only when the other one has already copied,
\* so both can pass it; the staged copy of an invocation can then vanish
\* while its quarto is running, and only through the cleanup of the other.
C16_CheckSeesOnlyCopies ==
    \A i \in 1..2 :
        /\ ipc[i] = "rejected" =>
               (icode[i] = 1 /\ ipc[3 - i] \notin {"check", "copy", "rejected"})
        /\ ilost[i] => ipc[3 - i] = "done"
        /\ (ipc[i] \in {"render", "running"} /\ tgt = Nobody) => ipc[3 - i] = "done"

\* both passed the check and copied; one has cleaned up and removed the
\* file while quarto of the other is still running
C16_Witness ==
    \E i \in 1..2 :
        /\ ipc[i] = "running"
        /\ ipc[3 - i] = "done"
        /\ icode[3 - i] = 0
        /\ tgt = Nobody
        /\ ilost[i]


\* C17: when the process has ended, the document and every staged resource
\* are still at their original paths with their original content.
C17_SourcesKept ==
    pc = "done" =>
        /\ source_file = <<>> \/ (source_file \in DOMAIN fs0 =>
               (source_file \in DOMAIN fs /\ fs[source_file] = fs0[source_file]))
        /\ \A m \in matches : m \in DOMAIN fs /\ fs[m] = fs0[m]

\* C18: when quarto is started, the project directory exists and every
\* member of the staged set is a file in it under its base name.
C18_StagedAtRender ==
    pc = "render" =>
        /\ project_dir \in DOMAIN fs
        /\ \A m \in matches :
               /\ Append(project_dir, Name(m)) \in DOMAIN fs
               /\ fs[Append(project_dir, Name(m))].kind = "file"


\* C19: every path a step of the cleanup deletes is absent from the
\* project directory as it was before the run and is the target of a copy
\* this run made; a run that ends without having copied anything leaves
\* the filesystem as it found it.
C19_CleanupOwnFiles ==
    [][ /\ pc = "cleanup" =>
               \A q \in DOMAIN fs \ DOMAIN fs' :
                   /\ q \notin DOMAIN fs0
                   /\ \E m \in copied : q = Append(project_dir, Name(m))
        /\ (pc' = "done" /\ copied' = {}) => fs' = fs0
      ]_vars

\* a run that copied two files into a project directory that held entries
\* of its own has ended: both copies are gone, the entries are as before
C19_Witness ==
    /\ pc = "done"
    /\ Cardinality(cleaned) >= 2
    /\ \A m \in cleaned : Append(project_dir, Name(m)) \notin DOMAIN fs
    /\ \E q \in DOMAIN fs0 : Len(q) = Len(project_dir) + 1 /\ IsPrefix(project_dir, q)
    /\ \A q \in DOMAIN fs0 :
           (Len(q) = Len(project_dir) + 1 /\ IsPrefix(project_dir, q) /\ fs0[q].kind = "file")
               => (q \in DOMAIN fs /\ fs[q] = fs0[q])

====
